---- MODULE Spec2Model ----
(***************************************************************************)
(* The execution core of the GeoFlow workflow canvas: the node list, the   *)
(* edge list, the Result Store (nodeDataStore) and the handlers of         *)
(* WorkflowCanvasInner that mutate them (onDrop, onConnect,                *)
(* handleUpdateConfig, handleUpdateData, handleRunNode, handleRunWorkflow, *)
(* handleClearCanvas), with the file upload of NodeInspector.              *)
(*                                                                         *)
(* React state is updated with functional updaters, applied in call order  *)
(* to the current state.  A handler created by useCallback reads `nodes',  *)
(* `edges' and `nodeDataStore' from the render in which it was created:    *)
(* a run started from the user interface reads the current state, while    *)
(* every handleRunNode call made by one handleRunWorkflow reads the state  *)
(* of the render in which that handleRunWorkflow was created.              *)
(***************************************************************************)
EXTENDS Integers, Sequences, FiniteSets, TLC

\* ------------------------------------------------------------------ bounds
MaxNodes == 2
MaxEdges == 2
MaxStamp == 1
MaxFetch == 1
MaxEdits == 1

\* --------------------------------------------------------------- constants
None == "none"

\* The catalog entries the palette offers in this model.
Palette == {"fileInput", "urlInput", "buffer", "fileOutput"}

\* A feature is abstracted by
\*   geom   the type of its geometry,
\*   turf   how the geometry library treats it:
\*            "ok"   is processed,
\*            "drop" makes turf.buffer return nothing (the feature is
\*                   filtered out),
\*            "bad"  makes the geometry library throw,
\*   cells  the area its geometry covers (a point or a rejected geometry
\*          covers none),
\*   props  its property map.
\* A FeatureCollection is the sequence of its features.
Feature(geom, turf, cells, props) ==
    [geom |-> geom, turf |-> turf, cells |-> cells, props |-> props]
OkFeature == Feature("Polygon", "ok", {1}, [name |-> 1])
DropFeature == Feature("Polygon", "drop", {1}, [name |-> 1])
BadFeature == Feature("Polygon", "bad", {}, [name |-> 1])

\* The files uploaded to a File Input node, as parseGeoFile returns them
Payloads == {<<OkFeature, DropFeature>>}

\* The URLs typed into the inspector of a URL node.
Urls == {"u"}

\* What a fetch of a URL can produce: a FeatureCollection, a bare Feature,
\* JSON of another type, or a response that is not ok.
FetchOutcomes ==
    {[kind |-> "FeatureCollection", body |-> p] : p \in Payloads}
        \cup {[kind |-> "Feature", body |-> BadFeature],
              [kind |-> "Other", body |-> ""],
              [kind |-> "HttpError", body |-> ""]}

VARIABLES
    nodes,       \* the node list: sequence of node records
    edges,       \* the edge list: sequence of [source, target, targetHandle],
                 \* in insertion order
    store,       \* nodeDataStore: function from node ids to FeatureCollections
    now,         \* Date.now() at the last drop
    cur,         \* the handleRunNode call between its 'running' update and its end
    fetches,     \* the handleRunNode calls suspended at `await fetch(url)'
    wf,          \* the handleRunWorkflow call in progress
    exported     \* the file written by the last handleRunNode call that ended, if any

vars == <<nodes, edges, store, now, cur, fetches, wf, exported>>

\* ------------------------------------------------------------------ helpers
Range(s) == {s[i] : i \in DOMAIN s}

NodeIds == {nodes[i].id : i \in DOMAIN nodes}

\* node.id.split('-')[0]
ActualType(id) == id[1]

DefaultConfig(type) ==
    CASE type = "fileInput" -> [format |-> "auto"]
      [] type = "urlInput" -> [url |-> "", method |-> "GET"]
      [] type = "buffer" -> [distance |-> 100, units |-> "meters"]
      [] type = "reproject" -> [targetCRS |-> "EPSG:4326"]
      [] type = "fileOutput" -> [format |-> "geojson", filename |-> "output"]
      [] type = "databaseInput" -> [connection |-> "", query |-> ""]
      [] type = "simplify" -> [tolerance |-> "0.001", highQuality |-> TRUE]
      [] type = "smooth" -> [iterations |-> 3]
      [] type = "dissolve" -> [propertyName |-> ""]
      [] type = "filter" -> [expression |-> ""]
      [] type = "join" -> [leftKey |-> "", rightKey |-> ""]
      [] type = "groupBy" -> [groupField |-> "", aggregations |-> <<>>]
      [] type = "distance" -> [units |-> "kilometers"]
      [] type = "area" -> [units |-> "square-kilometers"]
      [] type = "databaseOutput" -> [connection |-> "", tableName |-> ""]
      [] OTHER -> <<>>

\* The input and output ports of the catalog entries (nodeRegistry)
Inputs(type) ==
    CASE type \in {"fileInput", "urlInput", "databaseInput"} -> <<>>
      [] type \in {"intersect", "union"} -> <<"features", "overlay">>
      [] type = "clip" -> <<"features", "mask">>
      [] type = "join" -> <<"features", "table">>
      [] type = "distance" -> <<"features", "targets">>
      [] OTHER -> <<"features">>
Outputs(type) ==
    IF type \in {"fileOutput", "databaseOutput", "preview"} THEN <<>>
    ELSE <<"features">>

NoPreview == [featureCount |-> -1, crs |-> FALSE]

NewNode(type, stamp) ==
    [id |-> <<type, stamp>>, config |-> DefaultConfig(type), status |-> "idle",
     error |-> None, preview |-> NoPreview]

\* nds.map((n) => n.id === nodeId ? f(n) : n), f a function on the nodes of nds
MapNode(nds, nodeId, f) ==
    [i \in DOMAIN nds |-> IF nds[i].id = nodeId THEN f[nds[i]] ELSE nds[i]]

\* (a 'running' update that keeps the previous error)
SetRunningKeepError(n) == [n EXCEPT !.status = "running"]
SetRunning(n) == [n EXCEPT !.status = "running", !.error = None]
SetSuccess(n) == [n EXCEPT !.status = "success"]
\* (a catch block that also resets the feature count of the preview)
SetErrorResetPreview(n, msg) ==
    [n EXCEPT !.status = "error", !.error = msg,
              !.preview = [featureCount |-> 0, crs |-> n.preview.crs]]
SetError(n, msg) == [n EXCEPT !.status = "error", !.error = msg]
SetPreview(n, count, withCrs) ==
    [n EXCEPT !.status = "success",
              !.preview = [featureCount |-> count, crs |-> withCrs]]

\* nodes.find((n) => n.id === nodeId)
HasNode(nds, nodeId) == \E i \in DOMAIN nds : nds[i].id = nodeId
FindNode(nds, nodeId) ==
    LET hits == {i \in DOMAIN nds : nds[i].id = nodeId}
    IN  nds[CHOOSE i \in hits : \A j \in hits : i <= j]

\* edges.filter((e) => e.target === nodeId)
IncomingEdges(eds, nodeId) == SelectSeq(eds, LAMBDA e : e.target = nodeId)

\* A FeatureCollection or null
Null == [present |-> FALSE, fc |-> <<>>]
Some(fc) == [present |-> TRUE, fc |-> fc]

\* nodeDataStore[id] || null
Lookup(st, id) == IF id \in DOMAIN st THEN Some(st[id]) ELSE Null

\* getInputData: the Store entry of the first incoming edge's source, or null
GetInputData(eds, st, nodeId) ==
    LET inc == IncomingEdges(eds, nodeId)
    IN  IF Len(inc) = 0 THEN Null ELSE Lookup(st, inc[1].source)

\* getSecondaryInput: the Store entry of the second incoming edge's source
GetSecondaryInput(eds, st, nodeId) ==
    LET inc == IncomingEdges(eds, nodeId)
    IN  IF Len(inc) < 2 THEN Null ELSE Lookup(st, inc[2].source)

\* ------------------------------------------------------- operation library
Fail(msg) == [success |-> FALSE, data |-> <<>>, error |-> msg]

\* createSuccessResult: the data with stats.featureCount = features.length
CreateSuccessResult(fc) == [success |-> TRUE, data |-> fc, error |-> None]

\* A parsed JSON value is abstracted by
\*   kind  "FeatureCollection", "Feature", "Geometry" (its `type' is the type
\*         of a geometry), "Other" (an object of another type or of none) or
\*         "NotObject" (null, a number, a string),
\*   body  the features of a FeatureCollection, the feature of a Feature, and
\*         for a Geometry or another object the feature that has the object
\*         as geometry and no properties.
GeometryTypes ==
    {"Point", "MultiPoint", "LineString", "MultiLineString", "Polygon",
     "MultiPolygon", "GeometryCollection"}

\* normalizeToFeatureCollection: kind "throws" when it throws
NormalizeToFeatureCollection(geojson) ==
    CASE geojson.kind = "NotObject" -> [kind |-> "throws", fc |-> <<>>]
      [] geojson.kind = "FeatureCollection" -> [kind |-> "fc", fc |-> geojson.body]
      [] geojson.kind = "Feature" -> [kind |-> "fc", fc |-> <<geojson.body>>]
      [] OTHER -> [kind |-> "fc", fc |-> <<geojson.body>>]

\* turf.bbox of createSuccessResult visits the coordinates of every geometry
\* and throws on a geometry whose type it does not know
BboxThrows(fc) == \E i \in DOMAIN fc : fc[i].geom \notin GeometryTypes

\* parseGeoFile of a file with the extension geojson or json, after
\* JSON.parse
ParseGeoFile(geojson) ==
    LET normalized == NormalizeToFeatureCollection(geojson)
    IN  IF normalized.kind = "throws" THEN Fail("Invalid GeoJSON")
        ELSE IF BboxThrows(normalized.fc) THEN Fail("Unknown Geometry Type")
        ELSE CreateSuccessResult(normalized.fc)

\* { ...p, ...q }
Merge(p, q) ==
    [k \in DOMAIN p \cup DOMAIN q |-> IF k \in DOMAIN q THEN q[k] ELSE p[k]]

\* (a merge in which the first map wins on the keys the two share)
MergeFirstWins(p, q) ==
    [k \in DOMAIN p \cup DOMAIN q |-> IF k \in DOMAIN p THEN p[k] ELSE q[k]]
\* { ...f1.properties, ...f2.properties }
MergeProperties(p, q) == Merge(p, q)

\* config[key] || fallback
ConfigOr(config, key, fallback) ==
    IF key \in DOMAIN config /\ config[key] # "" THEN config[key] ELSE fallback

\* The property map of a feature the geometry library creates
NoProps == <<>>

\* The message of an error thrown by the geometry library
LibraryError == "geometry error"

\* The geometry library throws on some feature of the collection
Throws(fc) == \E i \in DOMAIN fc : fc[i].turf = "bad"

IsPolygon(f) == f.geom \in {"Polygon", "MultiPolygon"}

\* turf.intersect of two features: the polygon their areas share, null when
\* they share none; it throws on a geometry it rejects or that is no polygon
TurfIntersect(f1, f2) ==
    IF f1.turf = "bad" \/ f2.turf = "bad" \/ ~IsPolygon(f1) \/ ~IsPolygon(f2)
    THEN [kind |-> "throws", feature |-> f1]
    ELSE IF f1.cells \cap f2.cells = {}
    THEN [kind |-> "null", feature |-> f1]
    ELSE [kind |-> "feature",
          feature |-> Feature("Polygon", "ok", f1.cells \cap f2.cells, NoProps)]

\* input.features.forEach(f1 => secondaryInput.features.forEach(f2 => ...)):
\* the pairs in the order the two loops visit them
Pairs(input, overlay) ==
    [k \in 1..(Len(input) * Len(overlay)) |->
        <<input[((k - 1) \div Len(overlay)) + 1],
          overlay[((k - 1) % Len(overlay)) + 1]>>]

\* case 'intersect': a pair whose intersection throws or is null is skipped
Intersections(input, overlay) ==
    LET kept == SelectSeq(Pairs(input, overlay),
                          LAMBDA pr : TurfIntersect(pr[1], pr[2]).kind = "feature")
    IN  [k \in DOMAIN kept |->
            [TurfIntersect(kept[k][1], kept[k][2]).feature
                EXCEPT !.props = MergeProperties(kept[k][1].props, kept[k][2].props)]]

\* case 'clip': each feature is intersected with the first feature of the mask
Clipped(input, mask) ==
    LET kept == SelectSeq(input, LAMBDA f : TurfIntersect(f, mask).kind = "feature")
    IN  [k \in DOMAIN kept |-> TurfIntersect(kept[k], mask).feature]

\* The value a feature has for a property: {} when it has none
PropertyOf(f, name) == IF name \in DOMAIN f.props THEN {f.props[name]} ELSE {}

\* The area a collection covers
RECURSIVE CellsOf(_)
CellsOf(fc) == IF fc = <<>> THEN {} ELSE Head(fc).cells \cup CellsOf(Tail(fc))

\* turf.dissolve of polygons: one polygon for each value of the property, in
\* the order of the first feature that has the value
TurfDissolve(polygons, propertyName) ==
    LET first == SelectSeq(
                    [i \in DOMAIN polygons |-> [i |-> i, f |-> polygons[i]]],
                    LAMBDA x : \A j \in 1..(x.i - 1) :
                        PropertyOf(polygons[j], propertyName)
                            # PropertyOf(x.f, propertyName))
    IN  [k \in DOMAIN first |->
            Feature("Polygon", "ok",
                    CellsOf(SelectSeq(polygons, LAMBDA g :
                        PropertyOf(g, propertyName)
                            = PropertyOf(first[k].f, propertyName))),
                    IF propertyName \in DOMAIN first[k].f.props
                    THEN [n \in {propertyName} |-> first[k].f.props[propertyName]]
                    ELSE NoProps)]

\* case 'dissolve'
Dissolve(input, config) ==
    LET polygonFeatures == SelectSeq(input, IsPolygon)
    IN  IF ConfigOr(config, "propertyName", "") # ""
        THEN IF Len(polygonFeatures) > 0
             THEN IF Throws(polygonFeatures) THEN Fail(LibraryError)
                  ELSE CreateSuccessResult(
                          TurfDissolve(polygonFeatures, config.propertyName))
             ELSE CreateSuccessResult(input)
        ELSE IF Len(polygonFeatures) > 1
             THEN IF Throws(polygonFeatures)
                  THEN CreateSuccessResult(polygonFeatures)
                  ELSE CreateSuccessResult(
                          <<Feature("Polygon", "ok", CellsOf(polygonFeatures),
                                    NoProps)>>)
             ELSE CreateSuccessResult(input)

\* The distance of two centroids: none when the two areas meet
Distance(f, target) == IF f.cells \cap target.cells # {} THEN 0 ELSE 1

\* minDist === Infinity ? null : minDist, null being {}
MinDistance(f, targets) ==
    IF targets = <<>> THEN {}
    ELSE IF \E i \in DOMAIN targets : Distance(f, targets[i]) = 0 THEN {0}
    ELSE {1}

\* The expressions typed into the inspector of a Filter node: the name of a
\* property, a literal, and text that is not an expression
Malformed == "("
Expressions == {"b", "0", Malformed}

\* new Function('properties', `with(properties) { return ${expression}; }`)
\* called with the properties of a feature:
\*   text that is not an expression makes `new Function' throw a SyntaxError,
\*   the literal 0 is falsy,
\*   the name of a property is its value, and a ReferenceError for a feature
\*   that has no such property
EvalExpression(expression, props) ==
    IF expression = Malformed THEN "throws"
    ELSE IF expression = "0" THEN "false"
    ELSE IF expression \in DOMAIN props
    THEN IF props[expression] # 0 THEN "true" ELSE "false"
    ELSE "throws"

\* (a filter that drops the features whose evaluation throws)
FilteredDropOnError(input, expression) ==
    SelectSeq(input, LAMBDA f : EvalExpression(expression, f.props) = "true")
\* case 'filter': a feature whose evaluation throws is kept
Filtered(input, expression) ==
    SelectSeq(input, LAMBDA f : EvalExpression(expression, f.props) # "false")

\* processOperation: the whole switch runs inside one try/catch, so a throw
\* of the geometry library outside a try block of its own fails the whole
\* operation.
ProcessOperation(operation, input, config, secondary) ==
    CASE operation = "buffer" ->
            IF Throws(input) THEN Fail(LibraryError)
            ELSE LET buffered == SelectSeq(input, LAMBDA f : f.turf # "drop")
                 IN  CreateSuccessResult(
                        [i \in DOMAIN buffered |->
                            [buffered[i] EXCEPT !.geom = "Polygon"]])
      [] operation = "simplify" ->
            IF Throws(input) THEN Fail(LibraryError)
            ELSE CreateSuccessResult(input)
      [] operation = "centroid" ->
            IF Throws(input) THEN Fail(LibraryError)
            ELSE CreateSuccessResult(
                    [i \in DOMAIN input |->
                        Feature("Point", "ok", {}, Merge(input[i].props, NoProps))])
      [] operation = "bbox" ->
            IF Throws(input) THEN Fail(LibraryError)
            ELSE CreateSuccessResult(
                    [i \in DOMAIN input |->
                        Feature("Polygon", "ok", input[i].cells, input[i].props)])
      [] operation = "dissolve" -> Dissolve(input, config)
      [] operation = "intersect" ->
            IF ~secondary.present
            THEN Fail("Intersect requires a secondary input layer")
            ELSE CreateSuccessResult(Intersections(input, secondary.fc))
      [] operation = "union" ->
            IF ~secondary.present
            THEN Fail("Union requires a secondary input layer")
            ELSE CreateSuccessResult(input \o secondary.fc)
      [] operation = "clip" ->
            IF ~secondary.present \/ secondary.fc = <<>>
            THEN Fail("Clip requires a mask layer")
            ELSE CreateSuccessResult(Clipped(input, secondary.fc[1]))
      [] operation = "area" ->
            IF Throws(input) THEN Fail(LibraryError)
            ELSE CreateSuccessResult(
                    [i \in DOMAIN input |->
                        [input[i] EXCEPT !.props =
                            Merge(@, [area |-> Cardinality(input[i].cells),
                                      area_units |->
                                          ConfigOr(config, "units",
                                                   "square-kilometers")])]])
      [] operation = "distance" ->
            IF ~secondary.present
            THEN Fail("Distance calculation requires target points")
            ELSE IF Throws(input) \/ (input # <<>> /\ Throws(secondary.fc))
            THEN Fail(LibraryError)
            ELSE CreateSuccessResult(
                    [i \in DOMAIN input |->
                        [input[i] EXCEPT !.props =
                            Merge(@, [distance |->
                                          MinDistance(input[i], secondary.fc),
                                      distance_units |->
                                          ConfigOr(config, "units", "kilometers")])]])
      [] operation = "filter" ->
            IF ConfigOr(config, "expression", "") = ""
            THEN CreateSuccessResult(input)
            ELSE CreateSuccessResult(Filtered(input, config.expression))
      [] operation \in {"smooth", "makeValid", "reproject"} ->
            CreateSuccessResult(input)
      [] OTHER -> Fail("Unknown operation")

\* The scripts typed into the editor of a Custom Code node, each abstracted
\* by what it returns: the collection it was given, its feature array, the
\* feature array without its first feature, a number, or nothing because it
\* throws
Scripts ==
    {"return input", "return features", "return features.slice(1)", "return 1",
     "throw"}
Languages == {"javascript", "python-like"}

\* (a sandbox that accepts a FeatureCollection only)
ExecuteCustomCodeNoArray(code, language, input) ==
    IF language # "javascript"
    THEN Fail("Python-like syntax is experimental. Please use JavaScript for now.")
    ELSE CASE code = "return input" -> CreateSuccessResult(input)
           [] code = "throw" -> Fail("script error")
           [] OTHER -> Fail("Custom code must return a FeatureCollection or array of features")
\* executeCustomCode: the script is abstracted by what it returns
ExecuteCustomCode(code, language, input) ==
    IF language # "javascript"
    THEN Fail("Python-like syntax is experimental. Please use JavaScript for now.")
    ELSE CASE code = "return input" -> CreateSuccessResult(input)
           [] code = "return features" -> CreateSuccessResult(input)
           [] code = "return features.slice(1)" ->
                CreateSuccessResult(IF input = <<>> THEN <<>> ELSE Tail(input))
           [] code = "throw" -> Fail("script error")
           [] OTHER -> Fail("Custom code must return a FeatureCollection or array of features")

\* ------------------------------------------------------- dependency resolver
\* The depth-first traversal of handleRunWorkflow.  st = [visited, order].
RECURSIVE Visit(_, _, _), VisitAll(_, _, _)
\* (a traversal that appends the node before its dependencies)
VisitPreorder(eds, nodeId, st) ==
    IF nodeId \in st.visited THEN st
    ELSE LET marked == [st EXCEPT !.visited = @ \cup {nodeId},
                                 !.order = Append(@, nodeId)]
             deps == [i \in DOMAIN IncomingEdges(eds, nodeId) |->
                          IncomingEdges(eds, nodeId)[i].source]
         IN  VisitAll(eds, deps, marked)
Visit(eds, nodeId, st) ==
    IF nodeId \in st.visited THEN st
    ELSE LET marked == [st EXCEPT !.visited = @ \cup {nodeId}]
             deps == [i \in DOMAIN IncomingEdges(eds, nodeId) |->
                          IncomingEdges(eds, nodeId)[i].source]
             after == VisitAll(eds, deps, marked)
         IN  [after EXCEPT !.order = Append(@, nodeId)]
\* ids.forEach(visit)
VisitAll(eds, ids, st) ==
    IF ids = <<>> THEN st
    ELSE VisitAll(eds, Tail(ids), Visit(eds, Head(ids), st))

\* (a traversal that starts from the nodes without incoming edge only)
ExecutionOrderFromInputs(nds, eds) ==
    VisitAll(eds,
             [i \in DOMAIN SelectSeq(nds, LAMBDA n : IncomingEdges(eds, n.id) = <<>>)
                |-> SelectSeq(nds, LAMBDA n : IncomingEdges(eds, n.id) = <<>>)[i].id],
             [visited |-> {}, order |-> <<>>]).order
\* nodes.forEach((n) => visit(n.id)); executionOrder
ExecutionOrder(nds, eds) ==
    VisitAll(eds, [i \in DOMAIN nds |-> nds[i].id],
             [visited |-> {}, order |-> <<>>]).order

\* ------------------------------------------------------------ handleRunNode
\* What one handleRunNode call does after its 'running' update, as a function
\* of the node list, edge list and Store its closure reads:
\*   kind "error"   the catch block: status error with the message
\*   kind "status"  status success only (exportFile: exportToFormat was called)
\*   kind "data"    handleUpdateData(nodeId, data, stats)
\*   kind "preview" the Store entry and the preview of a Preview node
\*   kind "fetch"   the call is suspended at `await fetch(url)'
Outcome(kind, data, msg, exportFile) ==
    [kind |-> kind, data |-> data, error |-> msg, exportFile |-> exportFile]
Throw(msg) == Outcome("error", <<>>, msg, FALSE)

RunOutcome(nodeId, nds, eds, st) ==
    LET actualType == ActualType(nodeId)
        config == FindNode(nds, nodeId).config
        inputData == GetInputData(eds, st, nodeId)
    IN  CASE actualType = "fileInput" ->
                IF nodeId \in DOMAIN st
                THEN Outcome("status", <<>>, None, FALSE)
                ELSE Throw("No file uploaded")
          [] actualType = "urlInput" ->
                IF "url" \notin DOMAIN config \/ config.url = ""
                THEN Throw("Please enter a URL")
                ELSE Outcome("fetch", <<>>, None, FALSE)
          [] actualType = "fileOutput" ->
                IF ~inputData.present
                THEN Throw("No input data connected")
                ELSE Outcome("status", inputData.fc, None, TRUE)
          [] actualType = "preview" ->
                IF ~inputData.present
                THEN Throw("No input data connected")
                ELSE Outcome("preview", inputData.fc, None, FALSE)
          [] actualType = "customCode" ->
                IF ~inputData.present
                THEN Throw("No input data connected")
                ELSE LET result == ExecuteCustomCode(
                                       ConfigOr(config, "code", ""),
                                       ConfigOr(config, "language", "javascript"),
                                       inputData.fc)
                     IN  IF result.success
                         THEN Outcome("data", result.data, None, FALSE)
                         ELSE Throw(result.error)
          [] OTHER ->
                IF ~inputData.present
                THEN Throw("No input data connected. Connect an input node first.")
                ELSE LET result == ProcessOperation(actualType, inputData.fc, config,
                                       GetSecondaryInput(eds, st, nodeId))
                     IN  IF result.success
                         THEN Outcome("data", result.data, None, FALSE)
                         ELSE Throw(result.error)

\* The end of the fetch of a URL node: the normalisation of the response
FetchOutcome(response) ==
    CASE response.kind = "FeatureCollection" ->
            Outcome("data", response.body, None, FALSE)
      [] response.kind = "Feature" ->
            Outcome("data", <<response.body>>, None, FALSE)
      [] response.kind = "HttpError" -> Throw("HTTP error")
      [] OTHER -> Throw("Invalid GeoJSON response")

\* (an update that writes status success and the preview to every node)
UpdateDataNodesAll(nds, nodeId, data) ==
    [i \in DOMAIN nds |-> SetPreview(nds[i], Len(data), TRUE)]
\* handleUpdateData: writes the Store entry, status success and the preview
UpdateDataNodes(nds, nodeId, data) ==
    MapNode(nds, nodeId, [n \in Range(nds) |-> SetPreview(n, Len(data), TRUE)])
UpdateDataStore(st, nodeId, data) ==
    [k \in DOMAIN st \cup {nodeId} |-> IF k = nodeId THEN data ELSE st[k]]

\* The state updates one outcome makes
NodesAfter(nds, nodeId, out) ==
    CASE out.kind = "error" -> MapNode(nds, nodeId,
                                [n \in Range(nds) |-> SetError(n, out.error)])
      [] out.kind = "status" -> MapNode(nds, nodeId, [n \in Range(nds) |-> SetSuccess(n)])
      [] out.kind = "data" -> UpdateDataNodes(nds, nodeId, out.data)
      [] out.kind = "preview" ->
            MapNode(nds, nodeId,
                    [n \in Range(nds) |-> SetPreview(n, Len(out.data), FALSE)])
      [] OTHER -> nds
\* (a catch block that also discards the node's entry)
StoreAfterDropOnError(st, nodeId, out) ==
    IF out.kind \in {"data", "preview"} THEN UpdateDataStore(st, nodeId, out.data)
    ELSE IF out.kind = "error" THEN [k \in DOMAIN st \ {nodeId} |-> st[k]]
    ELSE st
StoreAfter(st, nodeId, out) ==
    IF out.kind \in {"data", "preview"} THEN UpdateDataStore(st, nodeId, out.data)
    ELSE st
ExportedAfter(nodeId, out) ==
    IF out.exportFile THEN [id |-> nodeId, data |-> out.data]
    ELSE [id |-> <<>>, data |-> <<>>]

\* ---------------------------------------------------------------- the state
\* The handleRunNode calls of a node that are suspended at their fetch
FetchesOf(nodeId) == {k \in DOMAIN fetches : fetches[k].id = nodeId}

NoRun == [id |-> <<>>, byWf |-> FALSE]
NoExport == [id |-> <<>>, data |-> <<>>]

IdleWf == [phase |-> "idle", order |-> <<>>, i |-> 0, started |-> <<>>,
           done |-> <<>>, snapNodes |-> <<>>, snapEdges |-> <<>>,
           snapStore |-> <<>>, edits |-> 0]

Init ==
    /\ nodes = <<>>
    /\ edges = <<>>
    /\ store = <<>>
    /\ now = 1
    /\ cur = NoRun
    /\ fetches = <<>>
    /\ wf = IdleWf
    /\ exported = NoExport

\* No handler is in the middle of its synchronous part.
Quiet == cur = NoRun

\* A user operation can interleave with a handleRunWorkflow in progress, at
\* most MaxEdits times; the record of a completed handleRunWorkflow is kept
\* until the next user operation.
CanUserOp == Quiet /\ (wf.phase \in {"idle", "done"} \/ wf.edits < MaxEdits)
WfAfterUserOp ==
    IF wf.phase = "done" THEN IdleWf
    ELSE IF wf.phase = "idle" THEN wf
    ELSE [wf EXCEPT !.edits = @ + 1]

\* -------------------------------------------------------------- graph edits
\* onDrop: a node of a catalog type, id `${nodeType}-${Date.now()}`; the clock
\* has advanced by `tick' since the previous drop
CreateNode(type, tick) ==
    /\ CanUserOp
    /\ Len(nodes) < MaxNodes
    /\ now + tick <= MaxStamp
    /\ now' = now + tick
    /\ nodes' = Append(nodes, NewNode(type, now'))
    /\ wf' = WfAfterUserOp
    /\ UNCHANGED <<edges, store, cur, fetches, exported>>

\* onConnect: addEdge appends the connection unless the same one exists.  A
\* connection is drawn from an output handle to an input handle, which
\* GeoNode renders for the declared outputs and inputs only.
OnConnect(params) ==
    /\ CanUserOp
    /\ Len(edges) < MaxEdges
    /\ params \notin Range(edges)
    /\ edges' = Append(edges, params)
    /\ wf' = WfAfterUserOp
    /\ UNCHANGED <<nodes, store, now, cur, fetches, exported>>
Connect(s, t) ==
    /\ Outputs(ActualType(s)) # <<>>
    /\ \E h \in Range(Inputs(ActualType(t))) :
            OnConnect([source |-> s, target |-> t, targetHandle |-> h])

\* onEdgesChange with a remove change: the k-th edge is deleted
RemoveEdge(k) ==
    /\ CanUserOp
    /\ edges' = [i \in 1..(Len(edges) - 1) |->
                    IF i < k THEN edges[i] ELSE edges[i + 1]]
    /\ wf' = WfAfterUserOp
    /\ UNCHANGED <<nodes, store, now, cur, fetches, exported>>

\* onNodesChange with a remove change: the node is deleted, and the canvas
\* deletes the edges connected to it with it
RemoveNode(nodeId) ==
    /\ CanUserOp
    /\ nodes' = SelectSeq(nodes, LAMBDA n : n.id # nodeId)
    /\ edges' = SelectSeq(edges, LAMBDA e : e.source # nodeId /\ e.target # nodeId)
    /\ wf' = WfAfterUserOp
    /\ UNCHANGED <<store, now, cur, fetches, exported>>

\* The configurations the inspector of a node hands to handleUpdateConfig:
\* { ...config, url: e.target.value } for a URL node
ConfigInputs(nodeId) ==
    IF ActualType(nodeId) = "urlInput"
    THEN {[FindNode(nodes, nodeId).config EXCEPT !.url = u] : u \in Urls}
    ELSE {}

\* (an update that keeps the keys of the old configuration)
SetConfigMerge(n, config) == [n EXCEPT !.config = Merge(n.config, config)]
\* { ...node, data: { ...node.data, config } }
SetConfig(n, config) == [n EXCEPT !.config = config]

\* handleUpdateConfig
UpdateConfig(nodeId, config) ==
    /\ CanUserOp
    /\ FindNode(nodes, nodeId).config # config
    /\ nodes' = MapNode(nodes, nodeId,
                        [n \in Range(nodes) |-> SetConfig(n, config)])
    /\ wf' = WfAfterUserOp
    /\ UNCHANGED <<edges, store, now, cur, fetches, exported>>

\* handleFileLoaded of the inspector of a File Input node, called with the
\* successful result of parseGeoFile
WithFileName(config) ==
    [k \in DOMAIN config \cup {"fileName"} |->
        IF k = "fileName" THEN "f" ELSE config[k]]
AfterUpload(nds, nodeId, data) ==
    UpdateDataNodes(
        MapNode(nds, nodeId,
            [n \in Range(nds) |->
                [n EXCEPT !.config = WithFileName(FindNode(nds, nodeId).config)]]),
        nodeId, data)
Upload(nodeId, data) ==
    /\ CanUserOp
    /\ ActualType(nodeId) = "fileInput"
    /\ nodes' = AfterUpload(nodes, nodeId, data)
    /\ store' = UpdateDataStore(store, nodeId, data)
    /\ wf' = WfAfterUserOp
    /\ UNCHANGED <<edges, now, cur, fetches, exported>>

\* handleClearCanvas
ClearCanvas ==
    /\ CanUserOp
    /\ nodes # <<>>
    /\ nodes' = <<>>
    /\ edges' = <<>>
    /\ store' = <<>>
    /\ wf' = WfAfterUserOp
    /\ UNCHANGED <<now, cur, fetches, exported>>

\* ------------------------------------------------------------------- runs
\* handleRunNode called from the user interface, up to its 'running' update
RunNode(nodeId) ==
    /\ CanUserOp
    /\ RunOutcome(nodeId, nodes, edges, store).kind = "fetch"
            => Cardinality(FetchesOf(nodeId)) < MaxFetch
    /\ nodes' = MapNode(nodes, nodeId, [n \in Range(nodes) |-> SetRunning(n)])
    /\ cur' = [id |-> nodeId, byWf |-> FALSE]
    /\ wf' = WfAfterUserOp
    /\ UNCHANGED <<edges, store, now, fetches, exported>>

\* What the call in progress reads: the state of the render of its closure
CurOutcome ==
    IF cur.byWf
    THEN RunOutcome(cur.id, wf.snapNodes, wf.snapEdges, wf.snapStore)
    ELSE RunOutcome(cur.id, nodes, edges, store)

\* (a loop that stops at the first node that ended in error)
WfAdvanceAbort(w) ==
    IF \/ w.i = Len(w.order)
       \/ \E j \in DOMAIN nodes' :
              nodes'[j].id = w.order[w.i] /\ nodes'[j].status = "error"
    THEN [w EXCEPT !.phase = "done", !.done = Append(@, w.order[w.i])]
    ELSE [w EXCEPT !.phase = "delay", !.i = @ + 1,
                   !.done = Append(@, w.order[w.i])]
\* handleRunWorkflow after `await handleRunNode(executionOrder[i])'
WfAdvance(w) ==
    IF w.i = Len(w.order)
    THEN [w EXCEPT !.phase = "done", !.done = Append(@, w.order[w.i])]
    ELSE [w EXCEPT !.phase = "delay", !.i = @ + 1,
                   !.done = Append(@, w.order[w.i])]

\* (a loop that does not await the handleRunNode call it made)
WfSuspendNoAwait(w) ==
    IF w.i = Len(w.order) THEN [w EXCEPT !.phase = "done"]
    ELSE [w EXCEPT !.phase = "delay", !.i = @ + 1]
\* handleRunWorkflow while the handleRunNode it awaits is suspended
WfSuspend(w) == [w EXCEPT !.phase = "fetch"]

\* the rest of a handleRunNode call that has no suspension point
RunFinish ==
    /\ cur # NoRun
    /\ CurOutcome.kind # "fetch"
    /\ nodes' = NodesAfter(nodes, cur.id, CurOutcome)
    /\ store' = StoreAfter(store, cur.id, CurOutcome)
    /\ exported' = ExportedAfter(cur.id, CurOutcome)
    /\ wf' = IF cur.byWf THEN WfAdvance(wf) ELSE wf
    /\ cur' = NoRun
    /\ UNCHANGED <<edges, now, fetches>>

\* a handleRunNode call of a URL node reaches `await fetch(url)'
RunSuspend ==
    /\ cur # NoRun
    /\ CurOutcome.kind = "fetch"
    /\ fetches' = Append(fetches, cur)
    /\ wf' = IF cur.byWf THEN WfSuspend(wf) ELSE wf
    /\ cur' = NoRun
    /\ UNCHANGED <<nodes, edges, store, now, exported>>

\* the fetch of the k-th suspended call ends with `response'
FetchDone(k, response) ==
    /\ Quiet
    /\ LET run == fetches[k]
           out == FetchOutcome(response)
       IN  /\ nodes' = NodesAfter(nodes, run.id, out)
           /\ store' = StoreAfter(store, run.id, out)
           /\ exported' = ExportedAfter(run.id, out)
           /\ wf' = IF run.byWf THEN WfAdvance(wf) ELSE wf
    /\ fetches' = [i \in 1..(Len(fetches) - 1) |->
                      IF i < k THEN fetches[i] ELSE fetches[i + 1]]
    /\ UNCHANGED <<edges, now, cur>>

\* handleRunWorkflow up to its first `await': the execution order is computed
RunWorkflow ==
    /\ Quiet
    /\ wf.phase \in {"idle", "done"}
    /\ nodes # <<>>
    /\ wf' = [phase |-> "delay", order |-> ExecutionOrder(nodes, edges), i |-> 1,
              started |-> <<>>, done |-> <<>>, snapNodes |-> nodes,
              snapEdges |-> edges, snapStore |-> store, edits |-> 0]
    /\ UNCHANGED <<nodes, edges, store, now, cur, fetches, exported>>

\* the pacing delay ends: handleRunNode(executionOrder[i]) is called and runs
\* up to its 'running' update (it returns at once for an id its closure's
\* node list does not hold)
WfStep ==
    /\ Quiet
    /\ wf.phase = "delay"
    /\ LET nodeId == wf.order[wf.i]
           w == [wf EXCEPT !.started = Append(@, nodeId)]
       IN  IF ~HasNode(wf.snapNodes, nodeId)
           THEN /\ UNCHANGED <<nodes, cur>>
                /\ wf' = WfAdvance(w)
           ELSE /\ RunOutcome(nodeId, wf.snapNodes, wf.snapEdges,
                              wf.snapStore).kind = "fetch"
                        => Cardinality(FetchesOf(nodeId)) < MaxFetch
                /\ nodes' = MapNode(nodes, nodeId, [n \in Range(nodes) |-> SetRunning(n)])
                /\ cur' = [id |-> nodeId, byWf |-> TRUE]
                /\ wf' = [w EXCEPT !.phase = "run"]
    /\ UNCHANGED <<edges, store, now, fetches, exported>>

Next ==
    \/ \E type \in Palette, tick \in {0, 1} : CreateNode(type, tick)
    \/ \E s \in NodeIds, t \in NodeIds : Connect(s, t)
    \/ \E k \in DOMAIN edges : RemoveEdge(k)
    \/ \E id \in NodeIds : \E config \in ConfigInputs(id) : UpdateConfig(id, config)
    \/ \E id \in NodeIds, data \in Payloads : Upload(id, data)
    \/ ClearCanvas
    \/ \E id \in NodeIds : RunNode(id)
    \/ RunFinish
    \/ RunSuspend
    \/ \E k \in DOMAIN fetches, response \in FetchOutcomes : FetchDone(k, response)
    \/ RunWorkflow
    \/ WfStep

Spec == Init /\ [][Next]_vars

\* ------------------------------------------------- scenario specifications
\* The orders in which the nodes of a set can have been dropped
DropOrders(S) ==
    {p \in [1..Cardinality(S) -> S] : \A i, j \in DOMAIN p : p[i] = p[j] => i = j}

InitWith(S) ==
    /\ nodes \in DropOrders(S)
    /\ edges = <<>>
    /\ store = <<>>
    /\ now = 1
    /\ cur = NoRun
    /\ fetches = <<>>
    /\ wf = IdleWf
    /\ exported = NoExport

\* Source -> Op -> Export: a File Input, a Buffer and an Export File node
\* have been dropped on the empty canvas, in any order.
InitChain ==
    InitWith({NewNode("fileInput", 1), NewNode("buffer", 1), NewNode("fileOutput", 1)})

NextChain ==
    \/ \E s \in NodeIds, t \in NodeIds : Connect(s, t)
    \/ \E k \in DOMAIN edges : RemoveEdge(k)
    \/ \E id \in NodeIds, data \in Payloads : Upload(id, data)
    \/ \E id \in NodeIds : RunNode(id)
    \/ RunFinish
    \/ RunWorkflow
    \/ WfStep

SpecChain == InitChain /\ [][NextChain]_vars

\* Three processing nodes, any of which can be wired to any other: the
\* graphs the dependency resolver is given.
InitGraph ==
    InitWith({NewNode("buffer", 1), NewNode("reproject", 1), NewNode("union", 1)})

NextGraph ==
    \/ \E s \in NodeIds, t \in NodeIds : Connect(s, t)
    \/ \E k \in DOMAIN edges : RemoveEdge(k)
    \/ RunFinish
    \/ RunWorkflow
    \/ WfStep

SpecGraph == InitGraph /\ [][NextGraph]_vars

\* Two URL nodes, dropped one millisecond after the other, which can be
\* configured, run and removed, and the canvas cleared.
InitFetch ==
    /\ nodes = <<NewNode("urlInput", 1), NewNode("urlInput", 2)>>
    /\ edges = <<>>
    /\ store = <<>>
    /\ now = 2
    /\ cur = NoRun
    /\ fetches = <<>>
    /\ wf = IdleWf
    /\ exported = NoExport

NextFetch ==
    \/ \E id \in NodeIds : \E config \in ConfigInputs(id) : UpdateConfig(id, config)
    \/ \E id \in NodeIds : RemoveNode(id)
    \/ ClearCanvas
    \/ \E id \in NodeIds : RunNode(id)
    \/ RunFinish
    \/ RunSuspend
    \/ \E k \in DOMAIN fetches, response \in FetchOutcomes : FetchDone(k, response)
    \/ RunWorkflow
    \/ WfStep

SpecFetch == InitFetch /\ [][NextFetch]_vars

\* The scheduling of the page: a handler that has started runs up to its
\* next `await' or its end, and the fetch that has been pending longest
\* completes or fails, between two handlers (so that every fetch eventually
\* does, however often other handlers run).
FairFetch ==
    /\ SpecFetch
    /\ WF_vars(RunFinish)
    /\ WF_vars(RunSuspend)
    /\ SF_vars(fetches # <<>> /\ \E response \in FetchOutcomes :
                                    FetchDone(1, response))

\* The handlers as the engine's surface, called with arguments of the
\* caller's choice: onConnect with the id of a node or of no node at either
\* end, handleUpdateConfig with any configuration map.
Ghost == <<"buffer", 0>>
ApiEndpoints == NodeIds \cup {Ghost}
ApiConfigs == {[url |-> "u"], [note |-> "n"]}

InitApi == InitWith({NewNode("urlInput", 1), NewNode("buffer", 1)})

NextApi ==
    \/ \E s \in ApiEndpoints, t \in ApiEndpoints :
            OnConnect([source |-> s, target |-> t, targetHandle |-> "features"])
    \/ \E k \in DOMAIN edges : RemoveEdge(k)
    \/ \E id \in NodeIds, config \in ApiConfigs : UpdateConfig(id, config)
    \/ \E id \in NodeIds : RunNode(id)
    \/ RunFinish
    \/ RunSuspend
    \/ \E k \in DOMAIN fetches, response \in FetchOutcomes : FetchDone(k, response)

SpecApi == InitApi /\ [][NextApi]_vars

\* Two File Input nodes and a node of an operation that takes two inputs,
\* dropped in this order; each File Input node has a file of its own to
\* upload.
BinaryTypes == {"intersect", "union", "clip", "distance"}
FileA == <<"fileInput", 1>>
FileB == <<"fileInput", 2>>
LayerOf(id) ==
    IF id = FileA THEN <<OkFeature>>
    ELSE <<Feature("Polygon", "ok", {1, 2}, [name |-> 2])>>

InitBinary ==
    /\ \E type \in BinaryTypes :
            nodes = <<NewNode("fileInput", 1), NewNode("fileInput", 2),
                      NewNode(type, 2)>>
    /\ edges = <<>>
    /\ store = <<>>
    /\ now = 2
    /\ cur = NoRun
    /\ fetches = <<>>
    /\ wf = IdleWf
    /\ exported = NoExport

NextBinary ==
    \/ \E s \in {FileA, FileB}, t \in NodeIds \ {FileA, FileB} : Connect(s, t)
    \/ \E k \in DOMAIN edges : RemoveEdge(k)
    \/ \E id \in NodeIds : Upload(id, LayerOf(id))
    \/ \E id \in NodeIds : RunNode(id)
    \/ RunFinish
    \/ RunWorkflow
    \/ WfStep

SpecBinary == InitBinary /\ [][NextBinary]_vars

\* A node of any catalog type, dropped after two File Input nodes whose files
\* have been uploaded, wired to them by as many edges as its type has inputs
\* and configured in its inspector: the node is run.
Catalog ==
    {"fileInput", "urlInput", "databaseInput", "reproject", "simplify",
     "makeValid", "smooth", "buffer", "intersect", "union", "dissolve", "clip",
     "centroid", "bbox", "filter", "join", "groupBy", "distance", "area",
     "fileOutput", "databaseOutput", "preview"}

PolyA == Feature("Polygon", "ok", {2}, [name |-> 1, a |-> 1])
PolyB == Feature("Polygon", "ok", {1}, [name |-> 1, b |-> 1])
PolyC == Feature("Polygon", "ok", {1}, [name |-> 2, c |-> 2])
PolyD == Feature("Polygon", "ok", {1, 2}, [name |-> 3])
PointP == Feature("Point", "ok", {}, [name |-> 1])
PolyZ == Feature("Polygon", "ok", {2}, [name |-> 1, b |-> 0])

\* The files of the first and of the second File Input node
OpsInputs ==
    {<<PolyA, PolyB>>, <<OkFeature, BadFeature, PolyB>>, <<PointP>>,
     <<PointP, PolyB>>, <<PolyB, PolyZ, PolyA, PolyB>>}
OpsOverlays == {<<PolyC>>, <<PolyD, PolyC>>}

\* The configurations the inspector of the node has produced
OpsConfigs(type) ==
    {DefaultConfig(type)} \cup
        CASE type = "urlInput" -> {[url |-> "u", method |-> "GET"]}
          [] type = "dissolve" -> {[propertyName |-> "name"]}
          [] type = "filter" -> {[expression |-> e] : e \in Expressions}
          [] OTHER -> {}

OpsNode(type) == <<type, 3>>

\* The edges drawn to the input handles of the node, in the order of the
\* handles
OpsEdges(type) ==
    [k \in DOMAIN Inputs(type) |->
        [source |-> IF k = 1 THEN FileA ELSE FileB, target |-> OpsNode(type),
         targetHandle |-> Inputs(type)[k]]]

InitOps ==
    /\ \E type \in Catalog, input \in OpsInputs, overlay \in OpsOverlays :
        \E config \in OpsConfigs(type) :
            /\ nodes = AfterUpload(
                        AfterUpload(
                            <<NewNode("fileInput", 1), NewNode("fileInput", 2),
                              SetConfig(NewNode(type, 3), config)>>,
                            FileA, input),
                        FileB, overlay)
            /\ edges = OpsEdges(type)
            /\ store = UpdateDataStore(UpdateDataStore(<<>>, FileA, input),
                                       FileB, overlay)
    /\ now = 3
    /\ cur = NoRun
    /\ fetches = <<>>
    /\ wf = IdleWf
    /\ exported = NoExport

NextOps ==
    \/ \E id \in NodeIds \ {FileA, FileB} : RunNode(id)
    \/ RunFinish
    \/ RunSuspend
    \/ \E k \in DOMAIN fetches, response \in FetchOutcomes : FetchDone(k, response)

SpecOps == InitOps /\ [][NextOps]_vars

\* A File Input node and a Custom Code node: the file is uploaded, the nodes
\* are wired, the script and its language are edited in the inspector and
\* the nodes are run.
ScriptNode == <<"customCode", 2>>
ScriptInputs == {<<OkFeature, DropFeature>>, <<PolyA>>}

\* { ...config, code } and { ...config, language }
ScriptConfigs(config) ==
    {Merge(config, [code |-> c]) : c \in Scripts}
        \cup {Merge(config, [language |-> l]) : l \in Languages}

InitScript ==
    /\ nodes = <<NewNode("fileInput", 1), NewNode("customCode", 2)>>
    /\ edges = <<>>
    /\ store = <<>>
    /\ now = 2
    /\ cur = NoRun
    /\ fetches = <<>>
    /\ wf = IdleWf
    /\ exported = NoExport

NextScript ==
    \/ Connect(FileA, ScriptNode)
    \/ \E k \in DOMAIN edges : RemoveEdge(k)
    \/ \E data \in ScriptInputs : Upload(FileA, data)
    \/ \E config \in ScriptConfigs(FindNode(nodes, ScriptNode).config) :
            UpdateConfig(ScriptNode, config)
    \/ \E id \in NodeIds : RunNode(id)
    \/ RunFinish

SpecScript == InitScript /\ [][NextScript]_vars

\* A File Input node and a URL node, to which GeoJSON of every shape is
\* given: the file is parsed by parseGeoFile, the response of the URL by
\* handleRunNode.
UrlB == <<"urlInput", 2>>
PointGeometry == Feature("Point", "ok", {}, NoProps)
UnknownObject == Feature("Unknown", "bad", {}, NoProps)
GeoJsonValues ==
    {[kind |-> "FeatureCollection", body |-> <<OkFeature, PointP>>],
     [kind |-> "FeatureCollection", body |-> <<>>],
     [kind |-> "Feature", body |-> OkFeature],
     [kind |-> "Geometry", body |-> PointGeometry],
     [kind |-> "Other", body |-> UnknownObject],
     [kind |-> "NotObject", body |-> UnknownObject]}

\* handleFile of the upload zone: handleFileLoaded is called with a
\* successful result only
LoadFile(nodeId, geojson) ==
    /\ ParseGeoFile(geojson).success
    /\ Upload(nodeId, ParseGeoFile(geojson).data)

InitParse ==
    /\ nodes = <<NewNode("fileInput", 1), NewNode("urlInput", 2)>>
    /\ edges = <<>>
    /\ store = <<>>
    /\ now = 2
    /\ cur = NoRun
    /\ fetches = <<>>
    /\ wf = IdleWf
    /\ exported = NoExport

NextParse ==
    \/ \E geojson \in GeoJsonValues : LoadFile(FileA, geojson)
    \/ \E config \in ConfigInputs(UrlB) : UpdateConfig(UrlB, config)
    \/ \E id \in NodeIds : RunNode(id)
    \/ RunFinish
    \/ RunSuspend
    \/ \E k \in DOMAIN fetches, response \in GeoJsonValues :
            FetchDone(k, response)

SpecParse == InitParse /\ [][NextParse]_vars

\* One URL node whose URL is typed, cleared and typed again in the inspector
\* while the node is run from the inspector and by Run Workflow.
UrlA == <<"urlInput", 1>>
OverlapUrls == Urls \cup {""}

InitOverlap == InitWith({NewNode("urlInput", 1)})

NextOverlap ==
    \/ \E u \in OverlapUrls :
            UpdateConfig(UrlA, [FindNode(nodes, UrlA).config EXCEPT !.url = u])
    \/ RunNode(UrlA)
    \/ RunFinish
    \/ RunSuspend
    \/ \E k \in DOMAIN fetches, response \in FetchOutcomes : FetchDone(k, response)
    \/ RunWorkflow
    \/ WfStep

SpecOverlap == InitOverlap /\ [][NextOverlap]_vars

\* Source -> Op -> Preview: a File Input, a Buffer and a Preview node have
\* been dropped on the empty canvas, in any order.
InitPreview ==
    InitWith({NewNode("fileInput", 1), NewNode("buffer", 1), NewNode("preview", 1)})

SpecPreview == InitPreview /\ [][NextChain]_vars

\* ------------------------------------------------------------------ claims
\* The dependency relation of an edge list: <<a, b>> when b transitively
\* depends on a (a path of edges leads from a to b).
RECURSIVE Closure(_, _)
Closure(R, k) ==
    IF k = 0 THEN R
    ELSE Closure(R \cup {<<pq[1][1], pq[2][2]>> :
                            pq \in {x \in R \X R : x[1][2] = x[2][1]}},
                 k - 1)
DependsOn(eds) ==
    Closure({<<eds[i].source, eds[i].target>> : i \in DOMAIN eds}, Len(eds))
Cyclic(eds) == \E p \in DependsOn(eds) : p[1] = p[2]
Positions(order, id) == {i \in DOMAIN order : order[i] = id}

\* C1: for an acyclic graph, the execution order computed by
\* handleRunWorkflow places every node after every node it transitively
\* depends on.
C1_OrderRespectsDependencies ==
    (wf.phase # "idle" /\ ~Cyclic(wf.snapEdges)) =>
        \A p \in DependsOn(wf.snapEdges) :
            /\ Positions(wf.order, p[1]) # {}
            /\ Positions(wf.order, p[2]) # {}
            /\ \A i \in Positions(wf.order, p[1]), j \in Positions(wf.order, p[2]) :
                    i < j

\* C1 witness: an order over a chain of two edges a -> b -> c computed
\* for a canvas on which c was dropped first and a last.
C1_Witness ==
    /\ wf.phase # "idle"
    /\ ~Cyclic(wf.snapEdges)
    /\ Len(wf.snapNodes) = 3
    /\ \E i, j \in DOMAIN wf.snapEdges :
            /\ wf.snapEdges[i].target = wf.snapEdges[j].source
            /\ wf.snapEdges[j].target = wf.snapNodes[1].id
            /\ wf.snapEdges[i].source = wf.snapNodes[3].id
    /\ wf.order[1] = wf.snapNodes[3].id
    /\ wf.order[3] = wf.snapNodes[1].id

\* C2: for a graph that contains a cycle, resolution fails: no execution
\* order is returned and handleRunWorkflow runs no node.
C2_CycleRejected ==
    (wf.phase # "idle" /\ Cyclic(wf.snapEdges)) =>
        (wf.order = <<>> /\ wf.started = <<>>)

\* The nodes of the canvas that carry the id
NodesOf(nds, id) == {i \in DOMAIN nds : nds[i].id = id}
Src == <<"fileInput", 1>>
Op == <<"buffer", 1>>
Exp == <<"fileOutput", 1>>

\* A handleRunWorkflow over the chain Src -> Op -> Exp, started when Src had
\* a Store entry and Op had never been run, that no user operation
\* interleaved with, has completed.
ChainRunDone ==
    /\ wf.phase = "done"
    /\ wf.edits = 0
    /\ Range(wf.snapEdges) =
            {[source |-> Src, target |-> Op, targetHandle |-> "features"],
             [source |-> Op, target |-> Exp, targetHandle |-> "features"]}
    /\ Src \in DOMAIN wf.snapStore
    /\ Op \notin DOMAIN wf.snapStore
    /\ \A i \in NodesOf(wf.snapNodes, Op) : wf.snapNodes[i].status = "idle"

\* C3: in a runAll over Source -> Op -> Export, each node's input is the
\* Store entry its upstream node wrote during this same runAll: at the end
\* Op is in success with an entry computed from the Source's entry and
\* Export is in success, having exported Op's entry of this run.
C3_ChainUsesThisRunsResults ==
    ChainRunDone =>
        /\ \A i \in NodesOf(nodes, Op) : nodes[i].status = "success"
        /\ Op \in DOMAIN store
        /\ store[Op] = ProcessOperation("buffer", wf.snapStore[Src],
                                        DefaultConfig("buffer"), Null).data
        /\ \A i \in NodesOf(nodes, Exp) : nodes[i].status = "success"
        /\ exported = [id |-> Exp, data |-> store[Op]]

\* C4: handleRunWorkflow computes the execution order once and runs the
\* nodes strictly in that order, one after the other: the runs started are
\* a prefix of the order, and a run is started only when every run started
\* before it has ended.
C4_RunsSequentiallyInOrder ==
    wf.phase # "idle" =>
        /\ wf.order = ExecutionOrder(wf.snapNodes, wf.snapEdges)
        /\ Len(wf.started) <= Len(wf.order)
        /\ wf.started = SubSeq(wf.order, 1, Len(wf.started))
        /\ wf.done = SubSeq(wf.order, 1, Len(wf.done))
        /\ Len(wf.done) <= Len(wf.started)
        /\ Len(wf.started) <= Len(wf.done) + 1
        /\ (Len(wf.started) = Len(wf.done) + 1) <=> (wf.phase \in {"run", "fetch"})
        /\ wf.phase = "done" => wf.done = wf.order
        /\ wf.phase = "fetch" =>
                \E k \in DOMAIN fetches :
                    fetches[k] = [id |-> wf.order[wf.i], byWf |-> TRUE]

\* C4 witness: the second node of the order is started after the fetch of
\* the first one, a URL node, has ended.
C4_Witness ==
    /\ wf.phase = "run"
    /\ Len(wf.done) = 1
    /\ ActualType(wf.done[1]) = "urlInput"
    /\ \A i \in NodesOf(wf.snapNodes, wf.done[1]) : wf.snapNodes[i].config.url # ""
    /\ cur.id = wf.order[2]

\* C5: whenever a run of a node ends in failure, the node's status becomes
\* error with a non-empty message and the Result Store is what it was
\* before the failing step.
C5_FailureKeepsStoreEntry ==
    [][/\ (cur # NoRun /\ cur' = NoRun /\ CurOutcome.kind = "error") =>
            /\ store' = store
            /\ \A i \in NodesOf(nodes', cur.id) :
                    /\ nodes'[i].status = "error"
                    /\ nodes'[i].error \notin {None, ""}
       /\ \A i \in DOMAIN nodes \cap DOMAIN nodes' :
            (nodes[i].status = "running" /\ nodes'[i].status = "error") =>
                /\ nodes'[i].error \notin {None, ""}
                /\ store' = store]_vars

\* C5 witness: a node whose last run failed keeps the Store entry of an
\* earlier successful run.
C5_Witness ==
    \E i \in DOMAIN nodes :
        /\ nodes[i].status = "error"
        /\ nodes[i].error \in {"HTTP error", "geometry error"}
        /\ nodes[i].id \in DOMAIN store

\* C6: whenever a run of a node of any type ends in success it has written
\* the node's Store entry and preview: every node whose status is success
\* has a Result Store entry and a preview.
C6_SuccessHasStoreEntry ==
    \A i \in DOMAIN nodes :
        nodes[i].status = "success" =>
            (nodes[i].id \in DOMAIN store /\ nodes[i].preview # NoPreview)

\* C7: a node's status changes only along idle -> running,
\* success -> running, error -> running, running -> success and
\* running -> error.
C7_StatusTransitions ==
    [][\A i \in DOMAIN nodes \cap DOMAIN nodes' :
          nodes'[i].status # nodes[i].status =>
              <<nodes[i].status, nodes'[i].status>> \in
                  {<<"idle", "running">>, <<"success", "running">>,
                   <<"error", "running">>, <<"running", "success">>,
                   <<"running", "error">>}]_vars

\* C8: a node whose status is running carries no error message.
C8_RunningHasNoError ==
    \A i \in DOMAIN nodes : nodes[i].status = "running" => nodes[i].error = None

\* C8 witness: a node that was in error with a message when
\* handleRunWorkflow started is now running, started by that
\* handleRunWorkflow.
C8_Witness ==
    /\ wf.phase \in {"run", "fetch"}
    /\ wf.edits = 0
    /\ \E i \in DOMAIN nodes \cap DOMAIN wf.snapNodes :
            /\ nodes[i].id = wf.order[wf.i]
            /\ wf.snapNodes[i].id = nodes[i].id
            /\ wf.snapNodes[i].status = "error"
            /\ wf.snapNodes[i].error # None
            /\ nodes[i].status = "running"

SourceTypes == {"fileInput", "urlInput", "databaseInput"}

\* C9: the run of a node of a non-source type that has no incoming edge, or
\* whose first incoming edge's source has no Store entry, ends in error with
\* a message and alters no Store entry.
C9_MissingInputFails ==
    [][(/\ cur # NoRun
        /\ cur' = NoRun
        /\ HasNode(nodes, cur.id)
        /\ ActualType(cur.id) \notin SourceTypes
        /\ ~GetInputData(edges, store, cur.id).present) =>
            /\ store' = store
            /\ \A i \in NodesOf(nodes', cur.id) :
                    /\ nodes'[i].status = "error"
                    /\ nodes'[i].error \notin {None, ""}]_vars

MissingInputMessages ==
    {"No input data connected",
     "No input data connected. Connect an input node first."}

\* A run made by handleRunWorkflow ends for a node whose primary input, as
\* handleRunWorkflow sees the graph, is a node that handleRunWorkflow has
\* run before and that is in error.
DependentOfFailedEnds(a) ==
    /\ cur # NoRun
    /\ cur.byWf
    /\ cur' = NoRun
    /\ Len(IncomingEdges(wf.snapEdges, cur.id)) > 0
    /\ a = IncomingEdges(wf.snapEdges, cur.id)[1].source
    /\ a \in Range(wf.done)
    /\ NodesOf(nodes, a) # {}
    /\ \A i \in NodesOf(nodes, a) : nodes[i].status = "error"

\* handleRunWorkflow attempts every node of the order exactly once
AttemptsEveryNodeOnce(w) ==
    w.phase = "done" =>
        /\ w.started = w.order
        /\ w.done = w.order
        /\ \A i, j \in DOMAIN w.order : w.order[i] = w.order[j] => i = j

RunningNodes == {nodes[i].id : i \in {j \in DOMAIN nodes : nodes[j].status = "running"}}

\* C11: only one node executes at a time: whenever no handler is in the
\* middle of its synchronous part, at most one handleRunNode call is in
\* progress and at most one node has status running.
C11_OneNodeRunning ==
    Quiet => (Len(fetches) <= 1 /\ Cardinality(RunningNodes) <= 1)

\* C12: destroying a node deletes its Result Store entry and the edges that
\* reference it: every key of the Result Store and every edge endpoint is
\* the id of an existing node (so that after handleClearCanvas, and after
\* the node removal of the canvas, nothing of a destroyed node is left, also
\* once a suspended fetch has completed).
C12_NoEntryOfDestroyedNode ==
    /\ DOMAIN store \subseteq NodeIds
    /\ \A k \in DOMAIN edges : {edges[k].source, edges[k].target} \subseteq NodeIds

\* C13: an onConnect whose source id or target id is not the id of an
\* existing node is rejected: it leaves the edge list unchanged.
C13_DanglingEdgeRejected ==
    [][\A s \in ApiEndpoints, t \in ApiEndpoints :
          (/\ {s, t} \ NodeIds # {}
           /\ OnConnect([source |-> s, target |-> t, targetHandle |-> "features"]))
              => edges' = edges]_vars

\* C14: handleUpdateConfig(n, c) replaces the configuration of node n by
\* exactly c and leaves unchanged the status, error and preview of n, every
\* other node, the edges and the Result Store.
C14_UpdateConfigReplaces ==
    [][\A id \in NodeIds, c \in ApiConfigs :
          UpdateConfig(id, c) =>
              /\ DOMAIN nodes' = DOMAIN nodes
              /\ \A i \in DOMAIN nodes :
                    IF nodes[i].id = id
                    THEN /\ nodes'[i].config = c
                         /\ DOMAIN nodes'[i].config = DOMAIN c
                         /\ nodes'[i].status = nodes[i].status
                         /\ nodes'[i].error = nodes[i].error
                         /\ nodes'[i].preview = nodes[i].preview
                         /\ nodes'[i].id = nodes[i].id
                    ELSE nodes'[i] = nodes[i]
              /\ edges' = edges
              /\ store' = store]_vars

\* C14 witness: a URL node that has a Store entry, status success and a
\* preview, and whose configuration was replaced by a map that has none of
\* the keys of the configuration it was run with.
C14_Witness ==
    \E i \in DOMAIN nodes :
        /\ ActualType(nodes[i].id) = "urlInput"
        /\ nodes[i].config = [note |-> "n"]
        /\ nodes[i].status = "success"
        /\ nodes[i].preview # NoPreview
        /\ nodes[i].id \in DOMAIN store
        /\ fetches = <<>>

\* A handleRunNode call of a node that is on the canvas ends at this step.
RunEnds == cur # NoRun /\ cur' = NoRun /\ HasNode(nodes, cur.id)

\* C15: for a node with incoming edges, a run takes as primary input the
\* Store entry of the source of the earliest-inserted incoming edge still
\* present and as secondary input the entry of the source of the second
\* earliest, whatever the target handles of the edges: the run ends as the
\* node's operation ends on these two entries.
C15_InputsAreEarliestEdges ==
    [][(RunEnds /\ ActualType(cur.id) \in BinaryTypes
            /\ IncomingEdges(edges, cur.id) # <<>>) =>
          LET inc == IncomingEdges(edges, cur.id)
              primary == Lookup(store, inc[1].source)
              secondary == IF Len(inc) > 1 THEN Lookup(store, inc[2].source)
                           ELSE Null
              result == ProcessOperation(ActualType(cur.id), primary.fc,
                                         FindNode(nodes, cur.id).config, secondary)
          IN  IF primary.present /\ result.success
              THEN /\ store' = UpdateDataStore(store, cur.id, result.data)
                   /\ \A i \in NodesOf(nodes', cur.id) : nodes'[i].status = "success"
              ELSE /\ store' = store
                   /\ \A i \in NodesOf(nodes', cur.id) : nodes'[i].status = "error"]_vars

\* C16: the run of an intersect, union, clip or distance node that has fewer
\* than two incoming edges, or whose second incoming edge's source has no
\* Store entry, ends in error with a message and leaves the Store unchanged.
C16_MissingSecondaryFails ==
    [][(/\ RunEnds
        /\ ActualType(cur.id) \in BinaryTypes
        /\ \/ Len(IncomingEdges(edges, cur.id)) < 2
           \/ IncomingEdges(edges, cur.id)[2].source \notin DOMAIN store) =>
            /\ store' = store
            /\ \A i \in NodesOf(nodes', cur.id) :
                    /\ nodes'[i].status = "error"
                    /\ nodes'[i].error \notin {None, ""}]_vars

\* C17: every catalog entry has an implementation that handleRunNode
\* dispatches to: a node of a catalog type whose inputs are present never
\* ends in error because the operation is unknown, and a node of a source
\* type never ends in error because it was asked for an upstream input.
C17_CatalogIsImplemented ==
    \A i \in DOMAIN nodes :
        (ActualType(nodes[i].id) \in Catalog /\ nodes[i].status = "error") =>
            /\ nodes[i].error # "Unknown operation"
            /\ ActualType(nodes[i].id) \in SourceTypes =>
                    nodes[i].error \notin MissingInputMessages

\* The operations processOperation implements
LibraryOperations ==
    {"buffer", "simplify", "centroid", "bbox", "dissolve", "intersect", "union",
     "clip", "area", "distance", "filter", "smooth", "makeValid", "reproject"}

\* C18: when the geometry library raises an error for one feature of the
\* primary input, an operation of the library still succeeds: the run of the
\* node ends in success with a Store entry, never in error.
C18_FailingFeatureDoesNotAbort ==
    [][(/\ RunEnds
        /\ ActualType(cur.id) \in LibraryOperations
        /\ FileA \in DOMAIN store
        /\ Cardinality({k \in DOMAIN store[FileA] :
                            store[FileA][k].turf = "bad"}) = 1) =>
            /\ cur.id \in DOMAIN store'
            /\ \A i \in NodesOf(nodes', cur.id) : nodes'[i].status = "success"]_vars

\* The pairs (primary feature, secondary feature) whose geometric
\* intersection is not empty
Hits(primary, overlay) ==
    {h \in (DOMAIN primary) \X (DOMAIN overlay) :
        primary[h[1]].cells \cap overlay[h[2]].cells # {}}
\* The place of a pair among them, ordered by primary then secondary feature
Rank(primary, overlay, h) ==
    1 + Cardinality({g \in Hits(primary, overlay) :
                        g[1] < h[1] \/ (g[1] = h[1] /\ g[2] < h[2])})

C20_DissolveReturnsPolygons ==
    \A i \in DOMAIN nodes :
        (/\ ActualType(nodes[i].id) = "dissolve"
         /\ nodes[i].status = "success"
         /\ ConfigOr(nodes[i].config, "propertyName", "") # "") =>
            \A k \in DOMAIN store[nodes[i].id] : IsPolygon(store[nodes[i].id][k])

\* The places of the features of a collection the expression is truthy on
\* or raises an error on
KeptPlaces(input, expression) ==
    {k \in DOMAIN input : EvalExpression(expression, input[k].props)
                              \in {"true", "throws"}}

\* C21: a Filter node never ends in error because of its expression; its
\* Store entry holds, in input order, the features of its input for which
\* the expression is truthy and those for which the evaluation raises an
\* error, and the input unchanged when the expression is empty.
C21_FilterKeepsOnError ==
    \A i \in DOMAIN nodes :
        ActualType(nodes[i].id) = "filter" =>
            /\ nodes[i].status # "error"
            /\ nodes[i].status = "success" =>
                LET input == store[FileA]
                    expression == nodes[i].config.expression
                    out == store[nodes[i].id]
                    kept == KeptPlaces(input, expression)
                IN  IF expression = "" THEN out = input
                    ELSE /\ Len(out) = Cardinality(kept)
                         /\ \A k \in kept :
                              out[Cardinality({j \in kept : j <= k})] = input[k]

\* C21 witness: a Filter node has succeeded on an input of four features, of
\* which the expression is truthy on two, falsy on one and raises an error
\* on one: the three features other than the falsy one are kept, in order.
C21_Witness ==
    \E i \in DOMAIN nodes :
        /\ ActualType(nodes[i].id) = "filter"
        /\ nodes[i].status = "success"
        /\ store[FileA] = <<PolyB, PolyZ, PolyA, PolyB>>
        /\ nodes[i].config.expression = "b"
        /\ store[nodes[i].id] = <<PolyB, PolyA, PolyB>>

\* The scripts that return a FeatureCollection or a bare array of features
ReturnsFeatures == {"return input", "return features", "return features.slice(1)"}

\* The script of a Custom Code node is executed and returns features
ScriptReturnsFeatures(nodeId) ==
    LET config == FindNode(nodes, nodeId).config
    IN  /\ GetInputData(edges, store, nodeId).present
        /\ ConfigOr(config, "language", "javascript") = "javascript"
        /\ ConfigOr(config, "code", "") \in ReturnsFeatures

Parsed(geojson) ==
    CASE geojson.kind = "FeatureCollection" -> [ok |-> TRUE, fc |-> geojson.body]
      [] geojson.kind \in {"Feature", "Geometry"} ->
            [ok |-> TRUE, fc |-> <<geojson.body>>]
      [] OTHER -> [ok |-> FALSE, fc |-> <<>>]

\* C23: parsing GeoJSON validates the `type' field, for an uploaded file and
\* for the response of a URL alike: a FeatureCollection is taken as is, a
\* bare Feature or a bare Geometry becomes a FeatureCollection of exactly one
\* feature, and any other value is rejected: no Store entry is written for
\* it.
C23_ParseValidatesType ==
    [][\A geojson \in GeoJsonValues :
          /\ LET result == ParseGeoFile(geojson)
             IN  /\ result.success = Parsed(geojson).ok
                 /\ result.success => result.data = Parsed(geojson).fc
          /\ \A k \in DOMAIN fetches :
                FetchDone(k, geojson) =>
                    IF Parsed(geojson).ok
                    THEN /\ fetches[k].id \in DOMAIN store'
                         /\ store'[fetches[k].id] = Parsed(geojson).fc
                         /\ \A i \in NodesOf(nodes', fetches[k].id) :
                                nodes'[i].status = "success"
                    ELSE /\ store' = store
                         /\ \A i \in NodesOf(nodes', fetches[k].id) :
                                nodes'[i].status = "error"]_vars

\* C24: every node has a unique id: after any sequence of drops, two of the
\* same catalog type at the same clock value included, no two nodes of the
\* node list share an id.
C24_UniqueIds ==
    \A i, j \in DOMAIN nodes : nodes[i].id = nodes[j].id => i = j

\* C25: a node whose status is success carries no error message, also when
\* the success comes from the upload of a file to a node whose previous run
\* ended in error.
C25_SuccessHasNoError ==
    \A i \in DOMAIN nodes : nodes[i].status = "success" => nodes[i].error = None

\* The completion of a suspended run of the node, whatever its fetch
\* returns, would leave the node list and the Store as they are.
SuspendedRunsAreSuperseded(nds, st, nodeId) ==
    \A response \in FetchOutcomes :
        /\ NodesAfter(nds, nodeId, FetchOutcome(response)) = nds
        /\ StoreAfter(st, nodeId, FetchOutcome(response)) = st

\* C26: when two runs of a node overlap, the Store entry, preview and status
\* of the node end as the run that started last leaves them: once that run
\* has ended, the completion of the fetch of a run of the node that started
\* before it changes nothing.
C26_LastStartedRunWins ==
    [][/\ (/\ cur # NoRun /\ cur' = NoRun /\ fetches' = fetches
           /\ FetchesOf(cur.id) # {})
            => SuspendedRunsAreSuperseded(nodes', store', cur.id)
       /\ \A k \in DOMAIN fetches :
            (/\ Len(fetches') < Len(fetches)
             /\ fetches' = [i \in 1..(Len(fetches) - 1) |->
                               IF i < k THEN fetches[i] ELSE fetches[i + 1]]
             /\ \E j \in 1..(k - 1) : fetches[j].id = fetches[k].id)
                => SuspendedRunsAreSuperseded(nodes', store', fetches[k].id)]_vars

\* The ids of the two URL nodes
UrlNodes == {<<"urlInput", 1>>, <<"urlInput", 2>>}

\* C27: provided every fetch eventually completes or fails, a node that a
\* run has set to running is eventually set to success or to error (its
\* status is eventually not running); and at the step at which
\* handleRunWorkflow completes no node of the canvas has status running.
C27_RunsEndAndNoneRunning ==
    /\ \A id \in UrlNodes : (id \in RunningNodes) ~> (id \notin RunningNodes)
    /\ [][(wf.phase # "done" /\ wf'.phase = "done") => RunningNodes' = {}]_vars

\* C28: the order computation of handleRunWorkflow terminates for every
\* graph, cyclic or not, and when every edge endpoint is the id of a node the
\* order it computes holds every node id exactly once and nothing else.
C28_OrderHoldsEveryNodeOnce ==
    wf.phase # "idle" =>
        LET ids == {wf.snapNodes[i].id : i \in DOMAIN wf.snapNodes}
        IN  (\A k \in DOMAIN wf.snapEdges :
                {wf.snapEdges[k].source, wf.snapEdges[k].target} \subseteq ids) =>
                /\ Range(wf.order) = ids
                /\ \A id \in ids : Cardinality(Positions(wf.order, id)) = 1

\* C28 witness: an order was computed for three nodes of which two depend on
\* each other, and it holds three ids.
C28_Witness ==
    /\ wf.phase # "idle"
    /\ Len(wf.snapNodes) = 3
    /\ \E p \in DependsOn(wf.snapEdges) :
            p[1] # p[2] /\ <<p[2], p[1]>> \in DependsOn(wf.snapEdges)
    /\ Len(wf.order) = 3

\* What a step of a run of node n may change: the status, error and preview
\* of n and the Store entry of n.
RunFrame(n) ==
    /\ edges' = edges
    /\ DOMAIN nodes' = DOMAIN nodes
    /\ \A i \in DOMAIN nodes :
            IF nodes[i].id = n
            THEN nodes'[i].id = n /\ nodes'[i].config = nodes[i].config
            ELSE nodes'[i] = nodes[i]
    /\ DOMAIN store \subseteq DOMAIN store'
    /\ DOMAIN store' \subseteq DOMAIN store \cup {n}
    /\ \A k \in DOMAIN store \ {n} : store'[k] = store[k]

C30_PreviewCountIsEntryCount ==
    \A i \in DOMAIN nodes :
        (nodes[i].preview # NoPreview /\ nodes[i].id \in DOMAIN store) =>
            nodes[i].preview.featureCount = Len(store[nodes[i].id])

\* C30 witness: the Preview node has a preview and an entry of one feature
\* written by a run on the output of the Buffer node, its last run has ended
\* in error, and the File Input node has a preview and an entry of two
\* features.
C30_Witness ==
    \E i, j \in DOMAIN nodes :
        /\ ActualType(nodes[i].id) = "preview"
        /\ nodes[i].status = "error"
        /\ nodes[i].preview.featureCount = 1
        /\ nodes[i].id \in DOMAIN store
        /\ Len(store[nodes[i].id]) = 1
        /\ ActualType(nodes[j].id) = "fileInput"
        /\ nodes[j].preview.featureCount = 2
        /\ nodes[j].id \in DOMAIN store

====
